---- MODULE Spec2Model ----
(***************************************************************************)
(* Model of the checkpointed-steps package of pypelined:                   *)
(*   misc/func.py               pipeline_step, FunctionStepBase            *)
(*   processing/text/flatten.py Flattened                                  *)
(*   encoders/text/dict2array.py DictToSparseArray                         *)
(*   encoders/text/word2vec.py  Word2VecEncoder                            *)
(* Python values are records [t, v]; a call's result is the string "True", *)
(* "False" or the name of the exception it raises.                         *)
(***************************************************************************)
EXTENDS Integers, Sequences, FiniteSets, TLC

(***************************************************************************)
(* Bounds of the model.                                                    *)
(***************************************************************************)
\* longest source text of a wrapped function (texts are sequences of Chars)
MaxTextLen == 2
\* string-hash salts an interpreter process can draw: 0..MaxSeed
MaxSeed == 1
\* hash() of a str has HashMod possible values (2^64 in CPython)
HashMod == 256
\* multiplier of the keyed string hash that stands for CPython's SipHash
HashMult == 31

Chars == {0, 1}
Texts == UNION {[1..n -> Chars] : n \in 1..MaxTextLen}
Seeds == 0..MaxSeed

(***************************************************************************)
(* Python values.                                                          *)
(***************************************************************************)
PyNone == [t |-> "NoneType", v |-> 0]
PyInt(n) == [t |-> "int", v |-> n]

\* a dict with the single key 'function_hash'
HashDict(value) == [kind |-> "dict", keys |-> {"function_hash"}, function_hash |-> value]
\* the dict {}
EmptyDict == [kind |-> "dict", keys |-> {}, function_hash |-> PyNone]
\* the value None used as metadata
NoneMetadata == [kind |-> "NoneType", keys |-> {}, function_hash |-> PyNone]

(***************************************************************************)
(* misc/func.py                                                            *)
(***************************************************************************)
\* The functions pipeline_step can wrap: one per source text, and one whose
\* source inspect.getsource cannot retrieve (it raises OSError).
Opaque == [introspectable |-> FALSE, text |-> << >>]
Funcs == {[introspectable |-> TRUE, text |-> s] : s \in Texts} \cup {Opaque}

\* hash(source) of a str: a keyed hash, salted per interpreter process by seed,
\* equal for equal (seed, text), with HashMod possible values.
RECURSIVE StrHashFrom(_, _)
StrHashFrom(h, s) ==
    IF s = << >> THEN h
    ELSE StrHashFrom((h * HashMult + Head(s) + 1) % HashMod, Tail(s))

StrHash(seed, s) == StrHashFrom(seed, s)

\* try: source = inspect.getsource(func) / except OSError: source = None
\* hash_value = hash(source) if source is not None else None
hash_value(func, seed) ==
    IF func.introspectable THEN PyInt(StrHash(seed, func.text)) ELSE PyNone

\* the keyword argument is_pure=False of pipeline_step
PurityArgs == {"True", "False", "omitted"}
is_pure(arg) == IF arg = "omitted" THEN FALSE ELSE arg = "True"

\* pipeline_step(..., is_pure=arg)(func), run in a process salted with seed
decorator(func, arg, seed) ==
    [cls |-> "FunctionStep", func |-> func, pure |-> is_pure(arg),
     hash |-> hash_value(func, seed)]

\* the three hand-written step classes, and the state before any step is built
Builtin(cls) == [cls |-> cls, func |-> Opaque, pure |-> TRUE, hash |-> PyNone]
BuiltinClasses == {"Flattened", "DictToSparseArray", "Word2VecEncoder"}
NoStep == [cls |-> "none", func |-> Opaque, pure |-> FALSE, hash |-> PyNone]

\* FunctionStepBase.is_deterministic: getattr(cls, '$_pure', False)
FunctionStepBase_is_deterministic(s) == s.pure

\* FunctionStepBase.get_checkpoint_metadata
FunctionStepBase_get_checkpoint_metadata(s) == HashDict(s.hash)

\* mutant: the test for an absent fingerprint is dropped
checkpoint_is_valid_no_none_test(s, metadata) ==
    IF metadata.kind # "dict" THEN "TypeError"
    ELSE IF "function_hash" \notin metadata.keys THEN "KeyError"
    ELSE IF s.hash = metadata.function_hash THEN "True" ELSE "False"

\* mutant: 'or' in place of 'and'
checkpoint_is_valid_or(s, metadata) ==
    IF s.hash # PyNone THEN "True"
    ELSE IF metadata.kind # "dict" THEN "TypeError"
    ELSE IF "function_hash" \notin metadata.keys THEN "KeyError"
    ELSE IF s.hash = metadata.function_hash THEN "True" ELSE "False"

\* FunctionStepBase.checkpoint_is_valid:
\*   h = getattr(self, '$_hash')
\*   return h is not None and h == metadata['function_hash']
\* 'and' evaluates metadata['function_hash'] only when h is not None; the
\* subscript raises TypeError on None and KeyError on a dict without the key.
FunctionStepBase_checkpoint_is_valid(s, metadata) ==
    IF s.hash = PyNone THEN "False"
    ELSE IF metadata.kind # "dict" THEN "TypeError"
    ELSE IF "function_hash" \notin metadata.keys THEN "KeyError"
    ELSE IF s.hash = metadata.function_hash THEN "True" ELSE "False"

(***************************************************************************)
(* flatten.py, dict2array.py, word2vec.py: the checkpoint methods          *)
(***************************************************************************)
Flattened_is_deterministic == TRUE
Flattened_get_checkpoint_metadata == EmptyDict
Flattened_checkpoint_is_valid(metadata) == "True"

DictToSparseArray_is_deterministic == TRUE
DictToSparseArray_get_checkpoint_metadata == EmptyDict
DictToSparseArray_checkpoint_is_valid(metadata) == "True"

Word2VecEncoder_is_deterministic == TRUE
Word2VecEncoder_get_checkpoint_metadata == EmptyDict
Word2VecEncoder_checkpoint_is_valid(metadata) == "True"

\* method dispatch on the class of the step
is_deterministic(s) ==
    CASE s.cls = "FunctionStep" -> FunctionStepBase_is_deterministic(s)
      [] s.cls = "Flattened" -> Flattened_is_deterministic
      [] s.cls = "DictToSparseArray" -> DictToSparseArray_is_deterministic
      [] OTHER -> Word2VecEncoder_is_deterministic

get_checkpoint_metadata(s) ==
    CASE s.cls = "FunctionStep" -> FunctionStepBase_get_checkpoint_metadata(s)
      [] s.cls = "Flattened" -> Flattened_get_checkpoint_metadata
      [] s.cls = "DictToSparseArray" -> DictToSparseArray_get_checkpoint_metadata
      [] OTHER -> Word2VecEncoder_get_checkpoint_metadata

checkpoint_is_valid(s, metadata) ==
    CASE s.cls = "FunctionStep" -> FunctionStepBase_checkpoint_is_valid(s, metadata)
      [] s.cls = "Flattened" -> Flattened_checkpoint_is_valid(metadata)
      [] s.cls = "DictToSparseArray" -> DictToSparseArray_checkpoint_is_valid(metadata)
      [] OTHER -> Word2VecEncoder_checkpoint_is_valid(metadata)

(***************************************************************************)
(* dict2array.py: DictToSparseArray.execute                                *)
(***************************************************************************)
\* most documents in a document list
MaxDocs == 2

D2ATokens == {"a", "b", "c"}
Indices == {0, 1}
\* a word-to-index dictionary: a dict from some of the tokens to indices
WordToIndex == UNION {[d -> Indices] : d \in SUBSET D2ATokens}
\* a document is a dict from token to count; items() yields its entries in
\* insertion order, so it is the sequence of its (token, count) entries
IsInjective(q) == \A i, j \in 1..Len(q) : q[i] = q[j] => i = j
TokenOrders == {q \in UNION {[1..n -> D2ATokens] : n \in 0..Cardinality(D2ATokens)} :
                   IsInjective(q)}
DictDocuments == {[i \in 1..Len(q) |-> [token |-> q[i], count |-> 1]] : q \in TokenOrders}
DictDocumentLists == UNION {[1..n -> DictDocuments] : n \in 0..MaxDocs}

SeqMax(q) == CHOOSE m \in {q[i] : i \in 1..Len(q)} : \A i \in 1..Len(q) : q[i] <= m

D2AError(message, word) ==
    [kind |-> "ValueError", message |-> message, word |-> word,
     data |-> << >>, row_ind |-> << >>, col_ind |-> << >>, shape |-> <<0, 0>>]

\* scipy.sparse.csr_array((data, (row_ind, col_ind))): the shape is inferred
\* as the largest index + 1 in each dimension, which fails without entries
csr_array(data, row_ind, col_ind) ==
    IF Len(row_ind) = 0 \/ Len(col_ind) = 0
    THEN D2AError("cannot infer dimensions from zero sized index arrays", "")
    ELSE [kind |-> "array", message |-> "", word |-> "",
          data |-> data, row_ind |-> row_ind, col_ind |-> col_ind,
          shape |-> <<SeqMax(row_ind) + 1, SeqMax(col_ind) + 1>>]

\* for token, col in document.items(): the entries from the k-th on; data and
\* row_ind are appended to before word_to_index[token] is looked up
RECURSIVE D2AItems(_, _, _, _, _)
D2AItems(word_to_index, document, row, k, acc) ==
    IF k > Len(document) THEN acc
    ELSE LET token == document[k].token
             appended == [acc EXCEPT !.data = Append(@, document[k].count),
                                     !.row_ind = Append(@, row)]
         IN  IF token \in DOMAIN word_to_index
             THEN D2AItems(word_to_index, document, row, k + 1,
                           [appended EXCEPT !.col_ind = Append(@, word_to_index[token])])
             ELSE [appended EXCEPT !.raised = TRUE, !.word = token]

\* for row, document in enumerate(documents): the documents from the r-th on
\* (enumerate counts rows from 0)
RECURSIVE D2ARows(_, _, _, _)
D2ARows(word_to_index, documents, r, acc) ==
    IF r > Len(documents) \/ acc.raised THEN acc
    ELSE D2ARows(word_to_index, documents, r + 1,
                 D2AItems(word_to_index, documents[r], r - 1, 1, acc))

\* DictToSparseArray.execute(**inputs)
DictToSparseArray_execute(word_to_index, documents) ==
    LET acc == D2ARows(word_to_index, documents, 1,
                       [data |-> << >>, row_ind |-> << >>, col_ind |-> << >>,
                        raised |-> FALSE, word |-> ""])
    IN  IF acc.raised
        THEN D2AError("Dictionary has no entry for word", acc.word)
        ELSE csr_array(acc.data, acc.row_ind, acc.col_ind)

D2ANoResult == D2AError("", "")
D2AIdle == [done |-> FALSE, word_to_index |-> << >>, documents |-> << >>,
            result |-> D2ANoResult]

(***************************************************************************)
(* word2vec.py: Word2VecEncoder.execute                                    *)
(***************************************************************************)
\* most words in a document given to Word2VecEncoder
MaxWords == 2

W2VWords == {"x", "y"}
\* a word embedding: the words it has a vector for; the vector of w is <<w>>
Embeddings == SUBSET W2VWords
WordDocuments == UNION {[1..n -> W2VWords] : n \in 0..MaxWords}
WordDocumentLists == UNION {[1..n -> WordDocuments] : n \in 0..MaxDocs}

PolicyKey == "params.unknown-word-policy"
ReplacementKey == "params.unknown-word-replacement"
\* get_arguments: options=['ignore', 'error', 'replace']
Policies == {"ignore", "error", "replace"}
\* a resolved configuration: either argument may be left out
Configs ==
    UNION {[d -> Policies \cup W2VWords] : d \in SUBSET {PolicyKey, ReplacementKey}}
W2VConfigs ==
    {c \in Configs :
        /\ PolicyKey \in DOMAIN c => c[PolicyKey] \in Policies
        /\ ReplacementKey \in DOMAIN c => c[ReplacementKey] \in W2VWords}

\* get_arguments: 'unknown-word-replacement' is enabled_if
\* Equal(ArgumentRef('unknown-word-policy'), Constant('replace'))
ReplacementEnabled(config) ==
    PolicyKey \in DOMAIN config /\ config[PolicyKey] = "replace"

\* config.get_casted(key, str): the value, or a typed error for a missing key
get_casted(config, key) ==
    IF key \in DOMAIN config
    THEN [ok |-> TRUE, value |-> config[key]]
    ELSE [ok |-> FALSE, value |-> ""]

W2VOutcome(status, reads, rows) == [status |-> status, reads |-> reads, rows |-> rows]

\* numpy.vstack(arrays): the rows of the arrays, an error for an empty list
RECURSIVE Concat(_)
Concat(lists) == IF lists = << >> THEN << >> ELSE Head(lists) \o Concat(Tail(lists))

\* mutant: the replacement is fetched whatever the policy
fetches_replacement_always(policy) == TRUE

\* if self.config.get_casted('params.unknown-word-policy', str) == 'replace':
fetches_replacement(policy) == policy = "replace"

\* for word in document: the words from the k-th on.  acc holds the status,
\* the configuration keys read so far and document_vectors
RECURSIVE W2VWordLoop(_, _, _, _, _, _)
W2VWordLoop(vectors, config, replacement_vector, document, k, acc) ==
    IF k > Len(document) \/ acc.status # "ok" THEN acc
    ELSE IF document[k] \in vectors
    THEN W2VWordLoop(vectors, config, replacement_vector, document, k + 1,
                     [acc EXCEPT !.rows = Append(@, <<document[k]>>)])
    ELSE LET policy == get_casted(config, PolicyKey)
             read == [acc EXCEPT !.reads = @ \cup {PolicyKey}]
         IN  IF ~policy.ok THEN [read EXCEPT !.status = "ConfigurationError"]
             ELSE IF policy.value = "error" THEN [read EXCEPT !.status = "KeyError"]
             ELSE IF policy.value = "replace"
             THEN W2VWordLoop(vectors, config, replacement_vector, document, k + 1,
                              [read EXCEPT !.rows = Append(@, replacement_vector)])
             ELSE W2VWordLoop(vectors, config, replacement_vector, document, k + 1, read)

\* for document in documents: the documents from the d-th on.  acc.rows is
\* result, a list of the stacked documents
RECURSIVE W2VDocumentLoop(_, _, _, _, _, _)
W2VDocumentLoop(vectors, config, replacement_vector, documents, d, acc) ==
    IF d > Len(documents) \/ acc.status # "ok" THEN acc
    ELSE LET doc == W2VWordLoop(vectors, config, replacement_vector, documents[d], 1,
                                W2VOutcome("ok", acc.reads, << >>))
         IN  IF doc.status # "ok" THEN W2VOutcome(doc.status, doc.reads, << >>)
             ELSE IF doc.rows = << >> THEN W2VOutcome("ValueError", doc.reads, << >>)
             ELSE W2VDocumentLoop(vectors, config, replacement_vector, documents, d + 1,
                                  W2VOutcome("ok", doc.reads, Append(acc.rows, doc.rows)))

W2VStack(acc) ==
    IF acc.status # "ok" THEN acc
    ELSE IF acc.rows = << >> THEN W2VOutcome("ValueError", acc.reads, << >>)
    ELSE W2VOutcome("ok", acc.reads, Concat(acc.rows))

\* Word2VecEncoder.execute(vectors, documents)
Word2VecEncoder_execute(vectors, documents, config) ==
    LET policy == get_casted(config, PolicyKey)
    IN  IF ~policy.ok THEN W2VOutcome("ConfigurationError", {PolicyKey}, << >>)
        ELSE IF fetches_replacement(policy.value)
        THEN LET key == get_casted(config, ReplacementKey)
                 reads == {PolicyKey, ReplacementKey}
             IN  IF ~key.ok THEN W2VOutcome("ConfigurationError", reads, << >>)
                 ELSE IF key.value \notin vectors
                 THEN W2VOutcome("ValueError", reads, << >>)
                 ELSE W2VStack(W2VDocumentLoop(vectors, config, <<key.value>>,
                                   documents, 1, W2VOutcome("ok", reads, << >>)))
        ELSE W2VStack(W2VDocumentLoop(vectors, config, << >>, documents, 1,
                          W2VOutcome("ok", {PolicyKey}, << >>)))

W2VIdle == [done |-> FALSE, vectors |-> {}, documents |-> << >>, config |-> << >>,
            outcome |-> W2VOutcome("none", {}, << >>)]

(***************************************************************************)
(* flatten.py: Flattened.execute                                           *)
(***************************************************************************)
\* most token lists in a document given to Flattened
MaxLists == 2
\* most calls of get_checkpoint_metadata the model follows
MaxMetadataCalls == 2

TokenLists == {<< >>, <<"a", "b">>, <<"c">>, <<"d">>}
ListDocuments == UNION {[1..n -> TokenLists] : n \in 0..MaxLists}
ListDocumentLists == UNION {[1..n -> ListDocuments] : n \in 0..MaxDocs}

\* mutant: only the first token list of a document is taken
chain_first_only(document) == IF document = << >> THEN << >> ELSE Head(document)

\* list(itertools.chain.from_iterable(document))
chain_from_iterable(document) == Concat(document)

\* Flattened.execute(**inputs): a new list, one flattened list per document
Flattened_execute(documents) ==
    [i \in 1..Len(documents) |-> chain_from_iterable(documents[i])]

FlatIdle == [done |-> FALSE, documents |-> << >>, given |-> << >>,
             result |-> << >>, metadata |-> << >>]

(***************************************************************************)
(* flatten.py, dict2array.py: supports_step_as_input                       *)
(***************************************************************************)
\* frames a chain of calls may use before Python raises RecursionError
RecursionLimit == 3

Markers == {"TokenizedDocumentSource", "DocumentDictEncoder", "WordIndexDictionarySource"}
\* a candidate producer step: the marker classes it is a subclass of
CandidateSteps == SUBSET Markers
issubclass(candidate, marker) == marker \in candidate

Labels == {"documents", "word-to-index-dictionary", "other"}
\* the two steps and a direct subclass of each (class X(Flattened): pass)
ConsumerClasses == {"Flattened", "DictToSparseArray", "SubFlattened", "SubDictToSparseArray"}
\* the method resolution order, over the classes that matter to the lookup
Mro(cls) ==
    CASE cls = "Flattened" -> <<"Flattened", "PipelineStep">>
      [] cls = "DictToSparseArray" -> <<"DictToSparseArray", "PipelineStep">>
      [] cls = "SubFlattened" -> <<"SubFlattened", "Flattened", "PipelineStep">>
      [] OTHER -> <<"SubDictToSparseArray", "DictToSparseArray", "PipelineStep">>
DefinesSupports == {"Flattened", "DictToSparseArray", "PipelineStep"}

\* the first class of mro, from position k on, that defines the method
RECURSIVE FirstDefining(_, _)
FirstDefining(mro, k) ==
    IF mro[k] \in DefinesSupports THEN mro[k] ELSE FirstDefining(mro, k + 1)
Position(mro, cls) == CHOOSE k \in 1..Len(mro) : mro[k] = cls

\* cls.supports_step_as_input: looked up along the whole MRO of cls
Resolve(cls) == FirstDefining(Mro(cls), 1)

\* super(cls, cls): the lookup starts after cls itself in the MRO of cls
super_cls_cls(defining, cls) ==
    FirstDefining(Mro(cls), Position(Mro(cls), cls) + 1)

BoolStr(b) == IF b THEN "True" ELSE "False"

\* A call of the method found in class impl, bound to cls.  default is what
\* PipelineStep.supports_step_as_input returns for (step, label).
RECURSIVE Invoke(_, _, _, _, _, _)
Flattened_supports_step_as_input(cls, candidate, label, default, depth) ==
    IF label = "documents"
    THEN BoolStr(issubclass(candidate, "TokenizedDocumentSource"))
    ELSE Invoke(super_cls_cls("Flattened", cls), cls, candidate, label, default, depth + 1)

DictToSparseArray_supports_step_as_input(cls, candidate, label, default, depth) ==
    IF label = "documents"
    THEN BoolStr(issubclass(candidate, "DocumentDictEncoder"))
    ELSE IF label = "word-to-index-dictionary"
    THEN BoolStr(issubclass(candidate, "WordIndexDictionarySource"))
    ELSE Invoke(super_cls_cls("DictToSparseArray", cls), cls, candidate, label, default,
                depth + 1)

PipelineStep_supports_step_as_input(cls, candidate, label, default) == BoolStr(default)

Invoke(impl, cls, candidate, label, default, depth) ==
    IF depth > RecursionLimit THEN "RecursionError"
    ELSE CASE impl = "Flattened" ->
                  Flattened_supports_step_as_input(cls, candidate, label, default, depth)
           [] impl = "DictToSparseArray" ->
                  DictToSparseArray_supports_step_as_input(cls, candidate, label, default,
                                                           depth)
           [] OTHER -> PipelineStep_supports_step_as_input(cls, candidate, label, default)

\* cls.supports_step_as_input(step, label)
supports_step_as_input(cls, candidate, label, default) ==
    Invoke(Resolve(cls), cls, candidate, label, default, 1)

SupIdle == [made |-> FALSE, cls |-> "", candidate |-> {}, label |-> "",
            default |-> FALSE, ret |-> "none"]

(***************************************************************************)
(* State of the checkpoint machinery.                                      *)
(***************************************************************************)
VARIABLES
    seed,    \* the string-hash salt of the running interpreter process
    step,    \* the step class built in this process
    store,   \* the orchestrator's checkpoint of the step's slot
    call,    \* the last direct call of checkpoint_is_valid on step
    run,     \* the last pass of the checkpoint protocol over step
    d2a,     \* DictToSparseArray.execute: its inputs and what it gave
    w2v,     \* Word2VecEncoder.execute: its inputs, configuration and outcome
    flat,    \* Flattened: the inputs of execute, its result, the metadata seen
    sup      \* the last call of supports_step_as_input

vars == <<seed, step, store, call, run, d2a, w2v, flat, sup>>
adapterVars == <<seed, step, store, call, run>>
otherVars == <<d2a, w2v, flat, sup>>

\* what identifies a step definition across processes: class, function, purity
Definition(s) == [cls |-> s.cls, func |-> s.func, pure |-> s.pure]

NoCheckpoint == [present |-> FALSE, metadata |-> EmptyDict, by |-> Definition(NoStep)]
NoCall == [made |-> FALSE, metadata |-> EmptyDict, ret |-> "none"]
NoRun == [outcome |-> "none", executed |-> FALSE, before |-> NoCheckpoint]

\* the metadata values a caller passes: what any process may have stored for
\* any definition, a dict without the key, and None
Metadata ==
    {HashDict(hash_value(f, k)) : f \in Funcs, k \in Seeds}
        \cup {EmptyDict, NoneMetadata}

InitAdapter ==
    /\ seed \in Seeds
    /\ step = NoStep
    /\ store = NoCheckpoint
    /\ call = NoCall
    /\ run = NoRun
    /\ d2a = D2AIdle /\ w2v = W2VIdle /\ flat = FlatIdle /\ sup = SupIdle

\* a new interpreter process starts (a later pipeline run): the salt is drawn
\* anew and no class is built yet; the checkpoint store persists
NewProcess(k) ==
    /\ seed' = k
    /\ step' = NoStep
    /\ call' = NoCall
    /\ run' = NoRun
    /\ UNCHANGED <<store, otherVars>>

\* @pipeline_step(..., is_pure=arg) applied to func
Decorate(func, arg) ==
    /\ step' = decorator(func, arg, seed)
    /\ call' = NoCall
    /\ run' = NoRun
    /\ UNCHANGED <<seed, store, otherVars>>

\* one of the hand-written step classes is used
UseBuiltin(cls) ==
    /\ step' = Builtin(cls)
    /\ call' = NoCall
    /\ run' = NoRun
    /\ UNCHANGED <<seed, store, otherVars>>

\* step.checkpoint_is_valid(metadata), for any metadata
CallCheckpointIsValid(metadata) ==
    /\ step # NoStep
    /\ call' = [made |-> TRUE, metadata |-> metadata,
                ret |-> checkpoint_is_valid(step, metadata)]
    /\ run' = NoRun
    /\ UNCHANGED <<seed, step, store, otherVars>>

\* The checkpoint protocol over the step: without a checkpoint, or with a
\* non-deterministic step, or with a checkpoint judged invalid, execute and
\* store get_checkpoint_metadata(); with a valid one, restore.  An exception
\* of checkpoint_is_valid ends the pass.
ProtocolOutcome(s, cp) ==
    IF ~cp.present THEN "NoCheckpoint"
    ELSE IF ~is_deterministic(s) THEN "Invalid"
    ELSE LET r == checkpoint_is_valid(s, cp.metadata)
         IN  IF r = "True" THEN "Valid"
             ELSE IF r = "False" THEN "Invalid" ELSE "Error"

RunProtocol ==
    /\ step # NoStep
    /\ LET o == ProtocolOutcome(step, store)
           exec == o \in {"NoCheckpoint", "Invalid"}
       IN  /\ run' = [outcome |-> o, executed |-> exec, before |-> store]
           /\ store' = IF exec
                       THEN [present |-> TRUE,
                             metadata |-> get_checkpoint_metadata(step),
                             by |-> Definition(step)]
                       ELSE store
    /\ call' = NoCall
    /\ UNCHANGED <<seed, step, otherVars>>

\* the orchestrator deletes the checkpoint
DeleteCheckpoint ==
    /\ store.present
    /\ store' = NoCheckpoint
    /\ call' = NoCall
    /\ run' = NoRun
    /\ UNCHANGED <<seed, step, otherVars>>

NextAdapter ==
    \/ \E k \in Seeds : NewProcess(k)
    \/ \E f \in Funcs, a \in PurityArgs : Decorate(f, a)
    \/ \E c \in BuiltinClasses : UseBuiltin(c)
    \/ \E m \in Metadata : CallCheckpointIsValid(m)
    \/ RunProtocol
    \/ DeleteCheckpoint

SpecAdapter == InitAdapter /\ [][NextAdapter]_vars
(***************************************************************************)
(* The steps' own operations, each under a specification of its own.       *)
(***************************************************************************)
AdapterIdle ==
    /\ seed = 0 /\ step = NoStep /\ store = NoCheckpoint
    /\ call = NoCall /\ run = NoRun

\* DictToSparseArray().execute(**inputs) on the inputs resolved for the step
D2AExecute ==
    /\ ~d2a.done
    /\ d2a' = [d2a EXCEPT !.done = TRUE,
                          !.result = DictToSparseArray_execute(d2a.word_to_index,
                                                               d2a.documents)]
    /\ UNCHANGED <<adapterVars, w2v, flat, sup>>

\* the inputs are any word-to-index dictionary and any document list
InitD2A ==
    /\ AdapterIdle /\ w2v = W2VIdle /\ flat = FlatIdle /\ sup = SupIdle
    /\ \E w \in WordToIndex, d \in DictDocumentLists :
           d2a = [D2AIdle EXCEPT !.word_to_index = w, !.documents = d]
NextD2A == D2AExecute
SpecD2A == InitD2A /\ [][NextD2A]_vars

\* Word2VecEncoder(config).execute(vectors, documents)
W2VExecute ==
    /\ ~w2v.done
    /\ w2v' = [w2v EXCEPT !.done = TRUE,
                          !.outcome = Word2VecEncoder_execute(w2v.vectors, w2v.documents,
                                                              w2v.config)]
    /\ UNCHANGED <<adapterVars, d2a, flat, sup>>

\* the step is built with any configuration and given any embedding and documents
InitW2V ==
    /\ AdapterIdle /\ d2a = D2AIdle /\ flat = FlatIdle /\ sup = SupIdle
    /\ \E v \in Embeddings, d \in WordDocumentLists, c \in W2VConfigs :
           w2v = [W2VIdle EXCEPT !.vectors = v, !.documents = d, !.config = c]
NextW2V == W2VExecute
SpecW2V == InitW2V /\ [][NextW2V]_vars

\* Flattened().execute(documents=flat.documents); flat.given keeps the argument
\* as it was before the first call, flat.documents is the object passed
FlatExecute ==
    /\ flat' = [flat EXCEPT !.done = TRUE,
                            !.result = Flattened_execute(flat.documents)]
    /\ UNCHANGED <<adapterVars, d2a, w2v, sup>>

\* Flattened().get_checkpoint_metadata(), the value appended to those seen
FlatGetMetadata ==
    /\ Len(flat.metadata) < MaxMetadataCalls
    /\ flat' = [flat EXCEPT !.metadata = Append(@, Flattened_get_checkpoint_metadata)]
    /\ UNCHANGED <<adapterVars, d2a, w2v, sup>>

InitFlat ==
    /\ AdapterIdle /\ d2a = D2AIdle /\ w2v = W2VIdle /\ sup = SupIdle
    /\ \E d \in ListDocumentLists :
           flat = [FlatIdle EXCEPT !.documents = d, !.given = d]
NextFlat ==
    \/ FlatExecute
    \/ FlatGetMetadata
SpecFlat == InitFlat /\ [][NextFlat]_vars

\* cls.supports_step_as_input(candidate, label)
SupCall(cls, candidate, label, default) ==
    /\ sup' = [made |-> TRUE, cls |-> cls, candidate |-> candidate, label |-> label,
               default |-> default,
               ret |-> supports_step_as_input(cls, candidate, label, default)]
    /\ UNCHANGED <<adapterVars, d2a, w2v, flat>>

InitSup == AdapterIdle /\ d2a = D2AIdle /\ w2v = W2VIdle /\ flat = FlatIdle /\ sup = SupIdle
NextSup ==
    \E c \in ConsumerClasses, p \in CandidateSteps, l \in Labels, b \in BOOLEAN :
        SupCall(c, p, l, b)
SpecSup == InitSup /\ [][NextSup]_vars

(***************************************************************************)
(* Claims about the adapter and the checkpoint protocol (SpecAdapter).     *)
(***************************************************************************)
IsAdapterStep == step.cls = "FunctionStep"
HasHashField(metadata) == metadata.kind = "dict" /\ "function_hash" \in metadata.keys

\* C1: for a step whose is_deterministic() is false, checkpoint_is_valid
\* returns false for every metadata, the metadata of its own run included, and
\* the protocol never ends Valid.  (Stated for the metadata records that carry
\* 'function_hash', the shape the step itself stores.)
C1_NonDeterministicNeverValid ==
    (step # NoStep /\ ~is_deterministic(step)) =>
        /\ (call.made /\ HasHashField(call.metadata)) => call.ret = "False"
        /\ run.outcome # "Valid"

\* C2: for an adapter step and metadata carrying 'function_hash',
\* checkpoint_is_valid returns true iff the step's fingerprint is present and
\* equals metadata['function_hash'], and false otherwise.
C2_ValidIffFingerprintMatches ==
    (call.made /\ IsAdapterStep /\ HasHashField(call.metadata)) =>
        call.ret = IF step.hash # PyNone /\ step.hash = call.metadata.function_hash
                   THEN "True" ELSE "False"

C2_Witness ==
    /\ call.made /\ IsAdapterStep /\ HasHashField(call.metadata)
    /\ call.ret = "True"

\* C3: when inspect.getsource fails for the wrapped function, the fingerprint
\* is None, checkpoint_is_valid returns false for every metadata, whatever the
\* purity flag, and every pass of the protocol executes the step.
C3_AbsentFingerprintNeverValid ==
    (IsAdapterStep /\ ~step.func.introspectable) =>
        /\ step.hash = PyNone
        /\ call.made => call.ret = "False"
        /\ run.outcome # "none" => (run.executed /\ run.outcome # "Valid")

\* a pure step without fingerprint is asked about the metadata of its own run
C3_Witness ==
    /\ IsAdapterStep /\ ~step.func.introspectable /\ step.pure
    /\ store.present /\ store.by = Definition(step)
    /\ call.made /\ call.metadata = store.metadata
    /\ call.metadata = HashDict(PyNone)
    /\ call.ret = "False"

\* metadata that lacks the shape get_checkpoint_metadata() of the step gives
Incompatible(s, metadata) ==
    \/ metadata.kind # "dict"
    \/ metadata.keys # get_checkpoint_metadata(s).keys

\* C4: for every step, checkpoint_is_valid returns false, and neither returns
\* true nor raises, when the stored metadata is structurally incompatible with
\* what get_checkpoint_metadata() of the step produces.  (Stated for metadata
\* that is a record, as in the claim's example.)
C4_IncompatibleMetadataIsInvalid ==
    ( /\ call.made
      /\ call.metadata.kind = "dict"
      /\ Incompatible(step, call.metadata) )
        => call.ret = "False"

\* C5: a deterministic step that finds the checkpoint its own unchanged
\* definition stored takes the Valid branch.  (Adapter steps without a
\* fingerprint are left out: a pass over them is Invalid by C3.)
C5_OwnCheckpointIsValid ==
    ( /\ run.outcome # "none"
      /\ is_deterministic(step)
      /\ run.before.present
      /\ run.before.by = Definition(step)
      /\ IsAdapterStep => step.func.introspectable )
        => run.outcome = "Valid"

\* C6: the fingerprint is a function of the source text alone: a step built
\* from the text that produced the stored checkpoint has the stored
\* fingerprint, and one built from another text has a different one and does
\* not judge the checkpoint valid.
C6_FingerprintIsFunctionOfSource ==
    ( /\ IsAdapterStep /\ step.func.introspectable
      /\ store.present
      /\ store.by.cls = "FunctionStep" /\ store.by.func.introspectable )
        => IF step.func.text = store.by.func.text
           THEN step.hash = store.metadata.function_hash
           ELSE /\ step.hash # store.metadata.function_hash
                /\ checkpoint_is_valid(step, store.metadata) # "True"

(***************************************************************************)
(* Claims about DictToSparseArray.execute (SpecD2A).                       *)
(***************************************************************************)
\* the tokens of the documents in the order execute meets them
RECURSIVE TokensInOrder(_)
TokensInOrder(documents) ==
    IF documents = << >> THEN << >>
    ELSE [i \in 1..Len(Head(documents)) |-> Head(documents)[i].token]
             \o TokensInOrder(Tail(documents))

MissingAt(word_to_index, tokens) ==
    {i \in 1..Len(tokens) : tokens[i] \notin DOMAIN word_to_index}
FirstMissing(word_to_index, tokens) ==
    LET at == MissingAt(word_to_index, tokens)
    IN  tokens[CHOOSE i \in at : \A j \in at : i <= j]

\* C7: with a token absent from the dictionary, execute fails with an error
\* naming the first such token in iteration order and returns no array; when
\* every token of every document is in the dictionary it does not fail.
C7_UnknownTokenFailsElseSucceeds ==
    d2a.done =>
        LET tokens == TokensInOrder(d2a.documents)
        IN  IF MissingAt(d2a.word_to_index, tokens) # {}
            THEN /\ d2a.result.kind = "ValueError"
                 /\ d2a.result.message = "Dictionary has no entry for word"
                 /\ d2a.result.word = FirstMissing(d2a.word_to_index, tokens)
                 /\ d2a.result.data = << >>
            ELSE d2a.result.kind = "array"

(***************************************************************************)
(* Claims about Word2VecEncoder.execute (SpecW2V).                         *)
(***************************************************************************)
PolicyIsIgnoreOrError ==
    /\ PolicyKey \in DOMAIN w2v.config
    /\ w2v.config[PolicyKey] \in {"ignore", "error"}
HasUnknownWord ==
    \E d \in 1..Len(w2v.documents) : \E k \in 1..Len(w2v.documents[d]) :
        w2v.documents[d][k] \notin w2v.vectors

\* C8: with 'unknown-word-policy' 'ignore' or 'error' and
\* 'unknown-word-replacement' omitted, execute never reads
\* 'params.unknown-word-replacement' and never fails for its absence.
C8_DisabledReplacementNotConsulted ==
    ( /\ w2v.done
      /\ PolicyIsIgnoreOrError
      /\ ~ReplacementEnabled(w2v.config)
      /\ ReplacementKey \notin DOMAIN w2v.config )
        => /\ ReplacementKey \notin w2v.outcome.reads
           /\ w2v.outcome.status # "ConfigurationError"

\* an unknown word is met under 'ignore' without the replacement configured
C8_Witness ==
    /\ w2v.done
    /\ PolicyKey \in DOMAIN w2v.config /\ w2v.config[PolicyKey] = "ignore"
    /\ ReplacementKey \notin DOMAIN w2v.config
    /\ HasUnknownWord
    /\ w2v.outcome.status = "ok"

(***************************************************************************)
(* Claims about Flattened (SpecFlat).                                      *)
(***************************************************************************)
RECURSIVE TotalLen(_, _)
TotalLen(lists, n) == IF n = 0 THEN 0 ELSE TotalLen(lists, n - 1) + Len(lists[n])

\* out holds the elements of the lists, list after list, each in its order
IsConcatenationOf(out, lists) ==
    /\ Len(out) = TotalLen(lists, Len(lists))
    /\ \A j \in 1..Len(lists) : \A k \in 1..Len(lists[j]) :
           out[TotalLen(lists, j - 1) + k] = lists[j][k]

\* C9: execute returns a list of the length of its input whose i-th element is
\* the in-order concatenation of the token lists of the i-th document, leaves
\* the input as it was, and get_checkpoint_metadata() gives the same value on
\* every call.
C9_FlattenConcatenatesInOrder ==
    /\ flat.done =>
           /\ Len(flat.result) = Len(flat.given)
           /\ \A i \in 1..Len(flat.given) : IsConcatenationOf(flat.result[i], flat.given[i])
           /\ flat.documents = flat.given
    /\ \A i, j \in 1..Len(flat.metadata) : flat.metadata[i] = flat.metadata[j]

\* the scenario [[[a,b],[c]],[[d]]], with the metadata asked for twice
C9_Witness ==
    /\ flat.done
    /\ flat.given = << << <<"a", "b">>, <<"c">> >>, << <<"d">> >> >>
    /\ flat.result = << <<"a", "b", "c">>, <<"d">> >>
    /\ Len(flat.metadata) = 2

(***************************************************************************)
(* Claims about supports_step_as_input (SpecSup).                          *)
(***************************************************************************)
IsFlattenedClass(cls) == cls \in {"Flattened", "SubFlattened"}

\* C10: for a label the step handles, supports_step_as_input is true exactly
\* when the candidate claims the required marker; for every other label it
\* returns the default implementation's result, also on a subclass.
C10_PerLabelCompatibility ==
    sup.made =>
        sup.ret =
            IF sup.label = "documents"
            THEN BoolStr(issubclass(sup.candidate,
                            IF IsFlattenedClass(sup.cls) THEN "TokenizedDocumentSource"
                            ELSE "DocumentDictEncoder"))
            ELSE IF sup.label = "word-to-index-dictionary" /\ ~IsFlattenedClass(sup.cls)
            THEN BoolStr(issubclass(sup.candidate, "WordIndexDictionarySource"))
            ELSE BoolStr(sup.default)

====
